---- MODULE Spec2Model ----
(***************************************************************************)
(* A model of the rplex scanning engine (src/lex.go): the Lexer cursor,    *)
(* the accept family, token emission and the Run trampoline.               *)
(*                                                                         *)
(* Text is a Go string, i.e. a sequence of bytes; runes are obtained by    *)
(* UTF-8 decoding as utf8.DecodeRuneInString does it.  Byte offsets are    *)
(* 0-based as in Go; the byte at offset p of s is s[p + 1].                *)
(***************************************************************************)
EXTENDS Integers, Sequences, FiniteSets, TLC

(***************************************************************************)
(* Bounds of the model.                                                    *)
(***************************************************************************)
\* every input text of at most this many bytes over Bytes is scanned
MaxLen == 2
\* most Emit calls of a behaviour that records every call
MaxEmits == 1
\* most Emit calls of a behaviour that follows the tokens
MaxTokens == 2
\* most state-function invocations of one Run
MaxCalls == 2
\* how far below 0 a misused Backup may drive Pos
MaxUnder == 1

(***************************************************************************)
(* Bytes and runes.                                                        *)
(***************************************************************************)
\* utf8.RuneError, U+FFFD: the decode sentinel
RuneError == 65533
\* '\\', the escape marker of AcceptUntilUnescaped
Backslash == 92
\* the zero value of a rune (Cur and Prev after New)
NoRune == 0

\* 0x22 '"', 0x5C '\', 0xC3 0xA9 = U+00E9; 0xC3 or 0xA9 alone is malformed
Bytes == {34, 92, 195, 169}

\* longer inputs scanned besides: U+FFFD itself, well-formed (0xEF 0xBF
\* 0xBD), alone and before other runes; a malformed byte before a '"';
\* runs of two and three backslashes before a '"'; and the shape of the
\* input of TestAcceptUntilUnescaped, an escaped '"' before a bare one
LongTexts ==
    { <<239, 191, 189>>,
      <<239, 191, 189, 195, 169, 34>>,
      <<195, 92, 34>>,
      <<92, 92, 34>>,
      <<92, 92, 92, 34, 34>>,
      <<195, 169, 92, 34, 195, 169, 34, 195, 169>> }

SeqsUpTo(S, n) == UNION { [1..k -> S] : k \in 0..n }

Texts == SeqsUpTo(Bytes, MaxLen) \cup LongTexts

\* the strings handed to Accept, AcceptRun, AcceptUntil, AcceptUntilUnescaped:
\* a '"'; a '"' and a backslash; a '"' and U+00E9; a malformed byte, which
\* ranges as RuneError
RuneStrings == { <<34>>, <<34, 92>>, <<34, 195, 169>>, <<195>> }

\* the RuneCheck predicates handed to AcceptFunc and AcceptRunFunc, each
\* given by the set of runes it is true of
RuneChecks == { {34}, {34, 233}, {RuneError} }

InRange(b, lo, hi) == lo <= b /\ b <= hi

\* the continuation bytes of a multi-byte encoding starting with b0 are
\* well-formed: the second byte in [lo, hi], the others in [0x80, 0xBF]
Continues(s, p, size, lo, hi) ==
    /\ p + size <= Len(s)
    /\ InRange(s[p + 2], lo, hi)
    /\ \A k \in 3..size : InRange(s[p + k], 128, 191)

\* utf8.DecodeRuneInString(s[p:]): the rune and its width in bytes.
\* Empty input gives (RuneError, 0), a malformed encoding (RuneError, 1).
DecodeRuneInString(s, p) ==
    IF p >= Len(s) THEN [r |-> RuneError, w |-> 0]
    ELSE LET b0 == s[p + 1]
             bad == [r |-> RuneError, w |-> 1]
         IN  IF b0 < 128 THEN [r |-> b0, w |-> 1]
             ELSE IF InRange(b0, 194, 223) THEN
                 IF Continues(s, p, 2, 128, 191)
                 THEN [r |-> (b0 % 32) * 64 + (s[p + 2] % 64), w |-> 2]
                 ELSE bad
             ELSE IF InRange(b0, 224, 239) THEN
                 IF Continues(s, p, 3,
                              IF b0 = 224 THEN 160 ELSE 128,
                              IF b0 = 237 THEN 159 ELSE 191)
                 THEN [r |-> (b0 % 16) * 4096 + (s[p + 2] % 64) * 64
                             + (s[p + 3] % 64), w |-> 3]
                 ELSE bad
             ELSE IF InRange(b0, 240, 244) THEN
                 IF Continues(s, p, 4,
                              IF b0 = 240 THEN 144 ELSE 128,
                              IF b0 = 244 THEN 143 ELSE 191)
                 THEN [r |-> (b0 % 8) * 262144 + (s[p + 2] % 64) * 4096
                             + (s[p + 3] % 64) * 64 + (s[p + 4] % 64), w |-> 4]
                 ELSE bad
             ELSE bad

\* the runes a `range` loop over the string s yields, from offset p on
RECURSIVE RunesFrom(_, _)
RunesFrom(s, p) ==
    IF p >= Len(s) THEN {}
    ELSE LET d == DecodeRuneInString(s, p)
         IN  {d.r} \cup RunesFrom(s, p + d.w)

\* strings.ContainsRune(s, r): r is one of the runes of s; for r = RuneError
\* that is any U+FFFD or malformed byte of s
ContainsRune(s, r) == r \in RunesFrom(s, 0)

(***************************************************************************)
(* The Lexer.                                                              *)
(***************************************************************************)
VARIABLES
    Text,        \* Lexer.Text: the raw input, a sequence of bytes
    Pos,         \* Lexer.Pos: the current byte offset
    Width,       \* Lexer.Width: width of the rune decoded last
    Cur,         \* Lexer.Cur
    Prev,        \* Lexer.Prev
    Tokens,      \* Lexer.Tokens: the emitted tokens (references to objects)
    TokenStart,  \* Lexer.TokenStart
    tokenText,   \* the text field of every token object (TextToken.text)
    status,      \* "ok", "panic" (a slice out of range), "hang" (a call that
                 \* never returns)
    last,        \* the most recent call: operation, argument, result and
                 \* the state it was made in
    contract,    \* how Backup has been used so far
    run,         \* the position of Run's loop
    observing,   \* what the behaviour records: "calls", "tokens",
                 \* "contract", "run" or "steps"; fixed by the initial
                 \* state
    scan,        \* the position of the loop of AcceptUntil and
                 \* AcceptUntilUnescaped, where a call is followed one
                 \* iteration at a time
    segments     \* the texts taken by Emit and dropped by Ignore so far,
                 \* one after the other

vars == <<Text, Pos, Width, Cur, Prev, Tokens, TokenStart, tokenText, status,
          last, contract, run, observing, scan, segments>>

\* the token objects the caller hands to Emit
TokenObjs == {"t1", "t2"}

\* the cursor fields as one value, for the operators below; nx counts the
\* Next calls since the last Backup (2 stands for two or more)
Cursor == [Pos |-> Pos, Width |-> Width, Cur |-> Cur, Prev |-> Prev,
           TokenStart |-> TokenStart, st |-> "ok",
           nx |-> IF observing = "contract" THEN contract.nexts ELSE 0]

\* Text[a:b]; out of range when not 0 <= a <= b <= len(Text)
SliceOK(a, b) == 0 <= a /\ a <= b /\ b <= Len(Text)
Slice(a, b) == SubSeq(Text, a + 1, b)

\* Next as it would be if the end of input counted as one byte
NextEndIsOneByte(l) ==
    IF l.st # "ok" THEN l
    ELSE IF ~SliceOK(l.Pos, Len(Text)) THEN [l EXCEPT !.st = "panic"]
    ELSE LET d == DecodeRuneInString(Text, l.Pos)
             w == IF d.w = 0 THEN 1 ELSE d.w
         IN  [l EXCEPT !.Pos = l.Pos + w, !.Width = w,
                       !.Prev = l.Cur, !.Cur = d.r,
                       !.nx = IF l.nx < 2 THEN l.nx + 1 ELSE 2]

\* Next as it would be if it left Prev alone
NextKeepsPrev(l) ==
    IF l.st # "ok" THEN l
    ELSE IF ~SliceOK(l.Pos, Len(Text)) THEN [l EXCEPT !.st = "panic"]
    ELSE LET d == DecodeRuneInString(Text, l.Pos)
         IN  [l EXCEPT !.Pos = l.Pos + d.w, !.Width = d.w, !.Cur = d.r,
                       !.nx = IF l.nx < 2 THEN l.nx + 1 ELSE 2]

\* Lexer.Next: decode at Pos, advance by the width, shift Cur into Prev.
\* Text[Pos:] panics when Pos is outside 0..len(Text).
LexerNext(l) ==
    IF l.st # "ok" THEN l
    ELSE IF ~SliceOK(l.Pos, Len(Text)) THEN [l EXCEPT !.st = "panic"]
    ELSE LET d == DecodeRuneInString(Text, l.Pos)
         IN  [l EXCEPT !.Pos = l.Pos + d.w, !.Width = d.w,
                       !.Prev = l.Cur, !.Cur = d.r,
                       !.nx = IF l.nx < 2 THEN l.nx + 1 ELSE 2]

\* Backup as it would be if it stepped back one byte whatever the width
BackupOneByte(l) ==
    IF l.st # "ok" THEN l
    ELSE [l EXCEPT !.Pos = l.Pos - 1, !.nx = 0]

\* Lexer.Backup
LexerBackup(l) ==
    IF l.st # "ok" THEN l
    ELSE [l EXCEPT !.Pos = l.Pos - l.Width, !.nx = 0]

\* Peek as it would be without the Backup
PeekWithoutBackup(l) == LexerNext(l)

\* Lexer.Peek
LexerPeek(l) == LexerBackup(LexerNext(l))

\* Ignore as it would be if it left TokenStart where it was
IgnoreKeepsStart(l) == l

\* Lexer.Ignore
LexerIgnore(l) == [l EXCEPT !.TokenStart = l.Pos]

\* Accept as it would be without the Backup of a rune that is not valid
AcceptKeepsRune(l, valid) ==
    LET n == LexerNext(l)
    IN  IF n.st # "ok" THEN [l |-> n, ret |-> FALSE]
        ELSE [l |-> n, ret |-> ContainsRune(valid, n.Cur)]

\* Lexer.Accept: the cursor after the call and the value returned
LexerAccept(l, valid) ==
    LET n == LexerNext(l)
    IN  IF n.st # "ok" THEN [l |-> n, ret |-> FALSE]
        ELSE IF ContainsRune(valid, n.Cur) THEN [l |-> n, ret |-> TRUE]
        ELSE [l |-> LexerBackup(n), ret |-> FALSE]

\* AcceptFunc as it would be without the Backup of a rune fn rejects
AcceptFuncKeepsRune(l, fn) == LexerNext(l)

\* Lexer.AcceptFunc; fn is the set of runes the RuneCheck accepts
LexerAcceptFunc(l, fn) ==
    LET n == LexerNext(l)
    IN  IF n.st # "ok" THEN n
        ELSE IF n.Cur \in fn THEN n
        ELSE LexerBackup(n)

\* the loop of AcceptRun as it would be without the Backup after it
RECURSIVE RunLoopNoBackup(_, _)
RunLoopNoBackup(l, ok) ==
    LET n == LexerNext(l)
    IN  IF n.st # "ok" THEN n
        ELSE IF ~(n.Cur \in ok) THEN n
        ELSE IF n = l THEN [n EXCEPT !.st = "hang"]
        ELSE RunLoopNoBackup(n, ok)

\* the loop `for test(l.Next()) {}` followed by l.Backup(), shared by
\* AcceptRun and AcceptRunFunc; ok is the set of runes the test accepts.
\* An iteration that accepts and leaves the lexer as it found it repeats
\* for ever: the call never returns.
RECURSIVE RunLoop(_, _)
RunLoop(l, ok) ==
    LET n == LexerNext(l)
    IN  IF n.st # "ok" THEN n
        ELSE IF ~(n.Cur \in ok) THEN LexerBackup(n)
        ELSE IF n = l THEN [n EXCEPT !.st = "hang"]
        ELSE RunLoop(n, ok)

\* Lexer.AcceptRun
LexerAcceptRun(l, valid) == RunLoop(l, RunesFrom(valid, 0))

\* Lexer.AcceptRunFunc
LexerAcceptRunFunc(l, fn) == RunLoop(l, fn)

\* AcceptUntil as it would be if it left the loop at the sentinel instead
\* of returning, and so backed up over it
RECURSIVE UntilBacksUpAtSentinel(_, _)
UntilBacksUpAtSentinel(l, delims) ==
    LET n == LexerNext(l)
    IN  IF n.st # "ok" THEN n
        ELSE IF ContainsRune(delims, n.Cur) \/ n.Cur = RuneError
             THEN LexerBackup(n)
        ELSE UntilBacksUpAtSentinel(n, delims)

\* AcceptUntil as it would be without the Backup at the delimiter
RECURSIVE UntilConsumesDelim(_, _)
UntilConsumesDelim(l, delims) ==
    LET n == LexerNext(l)
    IN  IF n.st # "ok" THEN n
        ELSE IF ContainsRune(delims, n.Cur) THEN n
        ELSE IF n.Cur = RuneError THEN n
        ELSE UntilConsumesDelim(n, delims)

\* Lexer.AcceptUntil
RECURSIVE LexerAcceptUntil(_, _)
LexerAcceptUntil(l, delims) ==
    LET n == LexerNext(l)
    IN  IF n.st # "ok" THEN n
        ELSE IF ContainsRune(delims, n.Cur) THEN LexerBackup(n)
        ELSE IF n.Cur = RuneError THEN n
        ELSE LexerAcceptUntil(n, delims)

\* the loop of AcceptUntilUnescaped as it would be if every backslash, an
\* escaped one too, escaped the rune after it
RECURSIVE UnescapedLoopByPrev(_, _, _)
UnescapedLoopByPrev(l, delims, inEscape) ==
    LET n == LexerNext(l)
        r == n.Cur
    IN  IF n.st # "ok" THEN n
        ELSE IF r = Backslash THEN UnescapedLoopByPrev(n, delims, TRUE)
        ELSE IF ContainsRune(delims, r) /\ ~inEscape THEN LexerBackup(n)
        ELSE IF n.Cur = RuneError THEN n
        ELSE UnescapedLoopByPrev(n, delims, FALSE)

\* the loop of AcceptUntilUnescaped as it would be if the test for a
\* delimiter came before the test for a backslash
RECURSIVE UnescapedLoopDelimFirst(_, _, _)
UnescapedLoopDelimFirst(l, delims, inEscape) ==
    LET n == LexerNext(l)
        r == n.Cur
    IN  IF n.st # "ok" THEN n
        ELSE IF ContainsRune(delims, r) /\ ~inEscape THEN LexerBackup(n)
        ELSE IF r = Backslash /\ ~inEscape
             THEN UnescapedLoopDelimFirst(n, delims, TRUE)
        ELSE IF n.Cur = RuneError THEN n
        ELSE UnescapedLoopDelimFirst(n, delims, FALSE)

\* the loop of Lexer.AcceptUntilUnescaped, entered with the given inEscape
RECURSIVE UnescapedLoop(_, _, _)
UnescapedLoop(l, delims, inEscape) ==
    LET n == LexerNext(l)
        r == n.Cur
    IN  IF n.st # "ok" THEN n
        ELSE IF r = Backslash /\ ~inEscape THEN UnescapedLoop(n, delims, TRUE)
        ELSE IF ContainsRune(delims, r) /\ ~inEscape THEN LexerBackup(n)
        ELSE IF n.Cur = RuneError THEN n
        ELSE UnescapedLoop(n, delims, FALSE)

\* AcceptUntilUnescaped as it would be if it took no notice of backslashes
UnescapedIgnoresEscapes(l, delims) == LexerAcceptUntil(l, delims)

\* Lexer.AcceptUntilUnescaped
LexerAcceptUntilUnescaped(l, delims) == UnescapedLoop(l, delims, FALSE)

(***************************************************************************)
(* What a behaviour records about the calls made so far.                   *)
(***************************************************************************)
\* the calls that take a string of runes, and those that take a RuneCheck
StringCalls == {"Accept", "AcceptRun", "AcceptUntil", "AcceptUntilUnescaped"}
FuncCalls == {"AcceptFunc", "AcceptRunFunc"}

NoCall == [op |-> "none", str |-> <<>>, fn |-> {}, tok |-> "none",
           ret |-> FALSE, rune |-> NoRune, after |-> "none",
           pre |-> [Pos |-> 0, TokenStart |-> 0],
           preTokens |-> <<>>, preText |-> [t \in TokenObjs |-> <<>>]]

\* the record of a call: its name, its argument (a string, a RuneCheck or
\* a token object), its result (a boolean or a rune), the state it was
\* made in and, where the tokens are followed, the call before it
Call(op, arg, res) ==
    [NoCall EXCEPT
        !.op = op,
        !.str = IF op \in StringCalls THEN arg ELSE <<>>,
        !.fn = IF op \in FuncCalls THEN arg ELSE {},
        !.tok = IF op = "Emit" THEN arg ELSE "none",
        !.ret = IF op = "Accept" THEN res ELSE FALSE,
        !.rune = IF op \in {"Next", "Peek"} THEN res ELSE NoRune,
        !.after = IF observing = "tokens" THEN last.op ELSE "none",
        !.pre = [Pos |-> Pos, TokenStart |-> TokenStart],
        !.preTokens = Tokens,
        !.preText = tokenText]

\* "calls" keeps every call; "tokens" keeps the Emit calls and of the
\* other calls only whether it was an Ignore, a Next or another one
Record(op, arg, res) ==
    IF observing = "calls" \/ (observing = "tokens" /\ op = "Emit")
    THEN Call(op, arg, res)
    ELSE IF observing = "tokens"
         THEN [NoCall EXCEPT !.op = IF op \in {"Ignore", "Next"} THEN op
                                      ELSE "scan"]
    ELSE NoCall

\* the use of Backup: nexts, the Next calls since the last Backup (those
\* made inside the other methods included); dirty, an Ignore or Emit since
\* the last Next; exact, every Backup the caller made came after exactly
\* one Next since the Backup before; clean, none of them came after an
\* Ignore or Emit made since that Next; used, the caller made a Backup
NoContract == [nexts |-> 0, dirty |-> FALSE, exact |-> FALSE, clean |-> FALSE,
               used |-> FALSE]

\* after a call that ran Next or Backup and left the cursor l
Moved(l) ==
    IF observing = "contract" /\ contract.exact
    THEN [contract EXCEPT !.nexts = l.nx, !.dirty = FALSE]
    ELSE contract

\* after the caller's own Backup
BackedUp ==
    IF observing = "contract" /\ contract.exact /\ contract.nexts = 1
    THEN [contract EXCEPT !.nexts = 0, !.dirty = FALSE, !.used = TRUE,
                          !.clean = contract.clean /\ ~contract.dirty]
    ELSE NoContract

\* after Ignore or Emit
Marked ==
    IF observing = "contract" /\ contract.exact
    THEN [contract EXCEPT !.dirty = TRUE]
    ELSE contract

(***************************************************************************)
(* The calls a user of the Lexer makes, one action per method.             *)
(***************************************************************************)
\* a caller may use the Lexer before Run and inside a state function; a
\* panic or a call that never returns ends everything.  Where the use of
\* Backup is recorded, a behaviour is followed up to the first Backup that
\* does not come after exactly one Next; where Run is followed, the Lexer
\* is fresh when Run is called.
CanCall ==
    /\ status = "ok"
    /\ run.phase \in {"idle", "body"}
    /\ scan.pc # "loop"
    /\ observing = "contract" => contract.exact
    /\ observing = "run" => run.phase = "body"

\* store the cursor an operator computed
SetCursor(l) ==
    /\ Pos' = l.Pos
    /\ Width' = l.Width
    /\ Cur' = l.Cur
    /\ Prev' = l.Prev
    /\ TokenStart' = l.TokenStart
    /\ status' = l.st
    /\ contract' = Moved(l)

Idle == [phase |-> "idle", lexfn |-> "nil", initial |-> "nil",
         invoked |-> <<>>, returned |-> <<>>, emits |-> <<>>,
         result |-> <<>>]

\* no call of AcceptUntil or AcceptUntilUnescaped is being followed
NoScan == [pc |-> "idle", op |-> "none", delims |-> <<>>, inEscape |-> FALSE,
           from |-> [Pos |-> 0, Width |-> 0, Cur |-> NoRune, Prev |-> NoRune,
                     TokenStart |-> 0, st |-> "ok", nx |-> 0]]

\* New(text), as the behaviour observing `what` starts
InitLexer(what) ==
    /\ Text \in Texts
    /\ Pos = 0
    /\ Width = 0
    /\ Cur = NoRune
    /\ Prev = NoRune
    /\ Tokens = <<>>
    /\ TokenStart = 0
    /\ tokenText = [t \in TokenObjs |-> <<>>]
    /\ status = "ok"
    /\ observing = what
    /\ last = IF what \in {"calls", "tokens"}
              THEN [NoCall EXCEPT !.op = "New"] ELSE NoCall
    /\ contract = IF what = "contract"
                  THEN [nexts |-> 0, dirty |-> FALSE, exact |-> TRUE,
                        clean |-> TRUE, used |-> FALSE]
                  ELSE NoContract
    /\ run = Idle
    /\ scan = NoScan
    /\ segments = <<>>

Init == InitLexer("calls")

CallNext ==
    /\ CanCall
    /\ LET l == LexerNext(Cursor)
       IN  /\ SetCursor(l)
           /\ last' = Record("Next", <<>>, l.Cur)
    /\ UNCHANGED <<Text, Tokens, tokenText, run, observing, scan, segments>>

\* Backup, wherever the caller makes it
CallBackup ==
    /\ CanCall
    /\ Pos - Width >= -MaxUnder
    /\ LET l == LexerBackup(Cursor)
       IN  /\ Pos' = l.Pos
           /\ status' = l.st
    /\ contract' = BackedUp
    /\ last' = Record("Backup", <<>>, FALSE)
    /\ UNCHANGED <<Text, Width, Cur, Prev, TokenStart, Tokens, tokenText,
                   run, observing, scan, segments>>

\* Backup made as its comment allows: straight after a Next
CallBackupAfterNext ==
    /\ last.op = "Next"
    /\ CallBackup

CallPeek ==
    /\ CanCall
    /\ LET l == LexerPeek(Cursor)
       IN  /\ SetCursor(l)
           /\ last' = Record("Peek", <<>>, l.Cur)
    /\ UNCHANGED <<Text, Tokens, tokenText, run, observing, scan, segments>>

\* the texts so far and one more, where the tokens are followed
Segment(text) == IF observing = "tokens" THEN segments \o text ELSE segments

CallIgnore ==
    /\ CanCall
    /\ LET l == LexerIgnore(Cursor)
       IN  TokenStart' = l.TokenStart
    /\ contract' = Marked
    /\ last' = Record("Ignore", <<>>, FALSE)
    /\ segments' = Segment(IF SliceOK(TokenStart, Pos)
                           THEN Slice(TokenStart, Pos) ELSE <<>>)
    /\ UNCHANGED <<Text, Pos, Width, Cur, Prev, Tokens, tokenText, status,
                   run, observing, scan>>

\* SetText as it would be if the token objects shared one text
SetTextOfEvery(t, text) == [o \in TokenObjs |-> text]

\* TextToken.SetText on the token object t
SetText(t, text) == [tokenText EXCEPT ![t] = text]

\* Emit as it would be if it left TokenStart where it was
EmitKeepsStart(t) ==
    IF SliceOK(TokenStart, Pos)
    THEN [st |-> "ok", text |-> SetText(t, Slice(TokenStart, Pos)),
          TokenStart |-> TokenStart, Tokens |-> Append(Tokens, t)]
    ELSE [st |-> "panic", text |-> tokenText, TokenStart |-> TokenStart,
          Tokens |-> Tokens]

\* Lexer.Emit: the token object t gets the text Text[TokenStart:Pos] (a
\* panic when that is out of range), TokenStart moves to Pos, and t is
\* appended to Tokens
LexerEmit(t) ==
    IF SliceOK(TokenStart, Pos)
    THEN [st |-> "ok", text |-> SetText(t, Slice(TokenStart, Pos)),
          TokenStart |-> Pos, Tokens |-> Append(Tokens, t)]
    ELSE [st |-> "panic", text |-> tokenText, TokenStart |-> TokenStart,
          Tokens |-> Tokens]

CallEmit(t) ==
    /\ CanCall
    /\ LET e == LexerEmit(t)
       IN  /\ tokenText' = e.text
           /\ TokenStart' = e.TokenStart
           /\ Tokens' = e.Tokens
           /\ status' = e.st
           /\ run' = IF observing = "run" /\ e.st = "ok"
                     THEN [run EXCEPT !.emits = Append(@, t)] ELSE run
           /\ segments' = IF e.st = "ok" THEN Segment(e.text[t])
                          ELSE segments
    /\ contract' = Marked
    /\ last' = Record("Emit", t, FALSE)
    /\ UNCHANGED <<Text, Pos, Width, Cur, Prev, observing, scan>>

CallAccept(valid) ==
    /\ CanCall
    /\ LET a == LexerAccept(Cursor, valid)
       IN  /\ SetCursor(a.l)
           /\ last' = Record("Accept", valid, a.ret)
    /\ UNCHANGED <<Text, Tokens, tokenText, run, observing, scan, segments>>

CallAcceptRun(valid) ==
    /\ CanCall
    /\ SetCursor(LexerAcceptRun(Cursor, valid))
    /\ last' = Record("AcceptRun", valid, FALSE)
    /\ UNCHANGED <<Text, Tokens, tokenText, run, observing, scan, segments>>

CallAcceptFunc(fn) ==
    /\ CanCall
    /\ SetCursor(LexerAcceptFunc(Cursor, fn))
    /\ last' = Record("AcceptFunc", fn, FALSE)
    /\ UNCHANGED <<Text, Tokens, tokenText, run, observing, scan, segments>>

CallAcceptRunFunc(fn) ==
    /\ CanCall
    /\ SetCursor(LexerAcceptRunFunc(Cursor, fn))
    /\ last' = Record("AcceptRunFunc", fn, FALSE)
    /\ UNCHANGED <<Text, Tokens, tokenText, run, observing, scan, segments>>

CallAcceptUntil(delims) ==
    /\ CanCall
    /\ SetCursor(LexerAcceptUntil(Cursor, delims))
    /\ last' = Record("AcceptUntil", delims, FALSE)
    /\ UNCHANGED <<Text, Tokens, tokenText, run, observing, scan, segments>>

CallAcceptUntilUnescaped(delims) ==
    /\ CanCall
    /\ SetCursor(LexerAcceptUntilUnescaped(Cursor, delims))
    /\ last' = Record("AcceptUntilUnescaped", delims, FALSE)
    /\ UNCHANGED <<Text, Tokens, tokenText, run, observing, scan, segments>>

\* the accept family
AcceptCalls ==
    \/ \E valid \in RuneStrings : CallAccept(valid)
    \/ \E valid \in RuneStrings : CallAcceptRun(valid)
    \/ \E fn \in RuneChecks : CallAcceptFunc(fn)
    \/ \E fn \in RuneChecks : CallAcceptRunFunc(fn)
    \/ \E delims \in RuneStrings : CallAcceptUntil(delims)
    \/ \E delims \in RuneStrings : CallAcceptUntilUnescaped(delims)

\* every method called by a caller who keeps to Backup's comment, every
\* call recorded
Next ==
    \/ CallNext
    \/ CallBackupAfterNext
    \/ CallPeek
    \/ CallIgnore
    \/ \E t \in TokenObjs : Len(Tokens) < MaxEmits /\ CallEmit(t)
    \/ AcceptCalls

Spec == Init /\ [][Next]_vars

\* every method called in any order, Backup wherever the caller likes, the
\* use of Backup recorded
InitContract == InitLexer("contract")

NextContract ==
    \/ CallNext
    \/ CallBackup
    \/ CallPeek
    \/ CallIgnore
    \/ \E t \in TokenObjs : Len(Tokens) < MaxEmits /\ CallEmit(t)
    \/ AcceptCalls

SpecContract == InitContract /\ [][NextContract]_vars

\* the calls the state functions of the tests make: the accept family,
\* Peek, Ignore and Emit
ScanCalls ==
    \/ CallPeek
    \/ CallIgnore
    \/ \E t \in TokenObjs : Len(Tokens) < MaxTokens /\ CallEmit(t)
    \/ AcceptCalls

\* those calls and Next with the Backup its comment allows, the Emit calls
\* recorded
InitTokens == InitLexer("tokens")

NextTokens ==
    \/ CallNext
    \/ CallBackupAfterNext
    \/ ScanCalls

SpecTokens == InitTokens /\ [][NextTokens]_vars

\* the calls of the state functions alone, never Next or Backup directly,
\* the Emit calls recorded
SpecScan == InitTokens /\ [][ScanCalls]_vars

(***************************************************************************)
(* Run: the loop `for lexfn := initial; lexfn != nil; { lexfn = lexfn(l) }`*)
(* and the state functions it calls.  A state function is any sequence of  *)
(* calls on the Lexer followed by the return of a state function or nil.   *)
(***************************************************************************)
Nil == "nil"
LexFns == {"lexA", "lexB"}

\* Run(initial) is called: lexfn := initial
RunBegin(r, initial) ==
    [r EXCEPT !.phase = "loop", !.lexfn = initial, !.initial = initial]

\* Run as it would be if it called the initial state function even when it
\* is nil and tested lexfn only after a call
RunTestsAfterCall(r) ==
    IF r.lexfn # Nil \/ r.invoked = <<>>
    THEN [r EXCEPT !.phase = "body", !.invoked = Append(@, r.lexfn)]
    ELSE [r EXCEPT !.phase = "done", !.result = Tokens]

\* one test of the loop condition: lexfn != nil enters the body and calls
\* lexfn(l); lexfn == nil leaves the loop and returns l.Tokens
RunTest(r) ==
    IF r.lexfn # Nil
    THEN [r EXCEPT !.phase = "body", !.invoked = Append(@, r.lexfn)]
    ELSE [r EXCEPT !.phase = "done", !.result = Tokens]

\* the state function called returns next: lexfn = lexfn(l)
RunAssign(r, next) ==
    [r EXCEPT !.phase = "loop", !.lexfn = next, !.returned = Append(@, next)]

RunCalled(initial) ==
    /\ status = "ok"
    /\ run.phase = "idle"
    /\ run' = RunBegin(run, initial)
    /\ UNCHANGED <<Text, Pos, Width, Cur, Prev, Tokens, TokenStart, tokenText,
                   status, last, contract, observing, scan,
                   segments>>

RunLoopTest ==
    /\ status = "ok"
    /\ run.phase = "loop"
    /\ run.lexfn # Nil => Len(run.invoked) < MaxCalls
    /\ run' = RunTest(run)
    /\ UNCHANGED <<Text, Pos, Width, Cur, Prev, Tokens, TokenStart, tokenText,
                   status, last, contract, observing, scan,
                   segments>>

StateFnReturns(next) ==
    /\ status = "ok"
    /\ run.phase = "body"
    /\ run' = RunAssign(run, next)
    /\ UNCHANGED <<Text, Pos, Width, Cur, Prev, Tokens, TokenStart, tokenText,
                   status, last, contract, observing, scan,
                   segments>>

\* Run is followed over the inputs of one-byte runes, as in the tests
InitRun == InitLexer("run") /\ Text \in SeqsUpTo({34, 92}, MaxLen)

\* the calls the state functions of TestAccept, TestAcceptRun and
\* TestIgnore make
TestCalls ==
    \/ CallIgnore
    \/ \E t \in TokenObjs : Len(Tokens) < MaxTokens /\ CallEmit(t)
    \/ \E valid \in RuneStrings : CallAccept(valid)
    \/ \E valid \in RuneStrings : CallAcceptRun(valid)

NextRun ==
    \/ \E initial \in LexFns \cup {Nil} : RunCalled(initial)
    \/ RunLoopTest
    \/ \E next \in LexFns \cup {Nil} : StateFnReturns(next)
    \/ TestCalls

SpecRun == InitRun /\ [][NextRun]_vars

(***************************************************************************)
(* AcceptUntil and AcceptUntilUnescaped one iteration at a time: a call    *)
(* enters the loop, each step is one pass through the loop body, and the   *)
(* call has returned when a pass ends in a return.                         *)
(***************************************************************************)
\* one pass of the loop of AcceptUntil as it would be without the test
\* for the sentinel
UntilStepNoSentinel(l, delims) ==
    LET n == LexerNext(l)
    IN  IF n.st # "ok" THEN [l |-> n, done |-> TRUE]
        ELSE IF ContainsRune(delims, n.Cur)
             THEN [l |-> LexerBackup(n), done |-> TRUE]
        ELSE [l |-> n, done |-> FALSE]

\* one pass of the loop of Lexer.AcceptUntil: the cursor after it and
\* whether the call returned
UntilStep(l, delims) ==
    LET n == LexerNext(l)
    IN  IF n.st # "ok" THEN [l |-> n, done |-> TRUE]
        ELSE IF ContainsRune(delims, n.Cur)
             THEN [l |-> LexerBackup(n), done |-> TRUE]
        ELSE IF n.Cur = RuneError THEN [l |-> n, done |-> TRUE]
        ELSE [l |-> n, done |-> FALSE]

\* one pass of the loop of AcceptUntilUnescaped as it would be if the test
\* for the sentinel came only after a rune that was not escaped
UnescapedStepSentinelUnescaped(l, delims, inEscape) ==
    LET n == LexerNext(l)
        r == n.Cur
    IN  IF n.st # "ok" THEN [l |-> n, done |-> TRUE, inEscape |-> inEscape]
        ELSE IF r = Backslash /\ ~inEscape
             THEN [l |-> n, done |-> FALSE, inEscape |-> TRUE]
        ELSE IF ContainsRune(delims, r) /\ ~inEscape
             THEN [l |-> LexerBackup(n), done |-> TRUE, inEscape |-> inEscape]
        ELSE IF n.Cur = RuneError /\ ~inEscape
             THEN [l |-> n, done |-> TRUE, inEscape |-> inEscape]
        ELSE [l |-> n, done |-> FALSE, inEscape |-> FALSE]

\* one pass of the loop of Lexer.AcceptUntilUnescaped
UnescapedStep(l, delims, inEscape) ==
    LET n == LexerNext(l)
        r == n.Cur
    IN  IF n.st # "ok" THEN [l |-> n, done |-> TRUE, inEscape |-> inEscape]
        ELSE IF r = Backslash /\ ~inEscape
             THEN [l |-> n, done |-> FALSE, inEscape |-> TRUE]
        ELSE IF ContainsRune(delims, r) /\ ~inEscape
             THEN [l |-> LexerBackup(n), done |-> TRUE, inEscape |-> inEscape]
        ELSE IF n.Cur = RuneError
             THEN [l |-> n, done |-> TRUE, inEscape |-> inEscape]
        ELSE [l |-> n, done |-> FALSE, inEscape |-> FALSE]

\* the call is made: inEscape := false, and the loop is entered
EnterLoop(op, delims) ==
    /\ CanCall
    /\ scan' = [pc |-> "loop", op |-> op, delims |-> delims,
                inEscape |-> FALSE, from |-> Cursor]
    /\ UNCHANGED <<Text, Pos, Width, Cur, Prev, Tokens, TokenStart, tokenText,
                   status, last, contract, run, observing, segments>>

AcceptUntilCalled(delims) == EnterLoop("AcceptUntil", delims)

AcceptUntilUnescapedCalled(delims) == EnterLoop("AcceptUntilUnescaped", delims)

AcceptUntilIterates ==
    /\ status = "ok"
    /\ scan.pc = "loop"
    /\ scan.op = "AcceptUntil"
    /\ LET s == UntilStep(Cursor, scan.delims)
       IN  /\ SetCursor(s.l)
           /\ scan' = [scan EXCEPT !.pc = IF s.done THEN "returned" ELSE "loop"]
    /\ UNCHANGED <<Text, Tokens, tokenText, last, run, observing, segments>>

AcceptUntilUnescapedIterates ==
    /\ status = "ok"
    /\ scan.pc = "loop"
    /\ scan.op = "AcceptUntilUnescaped"
    /\ LET s == UnescapedStep(Cursor, scan.delims, scan.inEscape)
       IN  /\ SetCursor(s.l)
           /\ scan' = [scan EXCEPT !.pc = IF s.done THEN "returned" ELSE "loop",
                                   !.inEscape = s.inEscape]
    /\ UNCHANGED <<Text, Tokens, tokenText, last, run, observing, segments>>

InitSteps == InitLexer("steps")

\* Next, before the first call
NextBeforeCalls ==
    /\ scan.pc = "idle"
    /\ CallNext

\* Next brings the cursor to every start position; then the calls, each
\* starting where the one before returned
NextSteps ==
    \/ NextBeforeCalls
    \/ \E delims \in RuneStrings : AcceptUntilCalled(delims)
    \/ \E delims \in RuneStrings : AcceptUntilUnescapedCalled(delims)
    \/ AcceptUntilIterates
    \/ AcceptUntilUnescapedIterates

\* a call runs on the caller's thread and nothing suspends it: a loop that
\* can make a pass makes it
SpecSteps ==
    /\ InitSteps
    /\ [][NextSteps]_vars
    /\ WF_vars(AcceptUntilIterates)
    /\ WF_vars(AcceptUntilUnescapedIterates)

(***************************************************************************)
(* The text as the properties below see it: runes and their offsets,       *)
(* read off Text without the Lexer.                                        *)
(***************************************************************************)
RuneAt(p) == DecodeRuneInString(Text, p)

\* the offsets at which decoding from offset p on finds a rune, and
\* len(Text)
RECURSIVE Boundaries(_)
Boundaries(p) ==
    IF p >= Len(Text) THEN {p}
    ELSE {p} \cup Boundaries(p + RuneAt(p).w)

\* the offsets of the runes of Text[p:]
RuneOffsets(p) == { q \in Boundaries(p) : q < Len(Text) }

Min(S) == CHOOSE x \in S : \A y \in S : x <= y

\* the runes of a string given to the accept family
Members(str) == RunesFrom(str, 0)

\* the set of runes the last call tested against
LastSet == IF last.op \in FuncCalls THEN last.fn ELSE Members(last.str)

\* the number of consecutive backslashes just before offset q, not counted
\* further back than offset p
BackslashRun(p, q) ==
    Cardinality({ k \in 1..(q - p) :
                    \A j \in 1..k : Text[q - j + 1] = Backslash })

Even(n) == n % 2 = 0

Returned(op) == last.op = op /\ status = "ok"

(***************************************************************************)
(* C4..C10: the accept family, one call at a time.                         *)
(***************************************************************************)
\* the last call was one of the four accept calls and the rune at the
\* cursor was none of the accepted ones
MatchedNothing ==
    /\ last.op \in {"Accept", "AcceptRun", "AcceptFunc", "AcceptRunFunc"}
    /\ RuneAt(last.pre.Pos).r \notin LastSet

\* C4: an Accept, AcceptRun, AcceptFunc or AcceptRunFunc call that matches
\* no rune returns and leaves Pos, TokenStart and Tokens (the list and the
\* texts of the token objects) as they were before the call
C4_NoMatchNoChange ==
    MatchedNothing =>
        /\ status = "ok"
        /\ Pos = last.pre.Pos
        /\ TokenStart = last.pre.TokenStart
        /\ Tokens = last.preTokens
        /\ tokenText = last.preText

\* a call that matched nothing at a malformed byte, and one at end of input,
\* after a token was emitted
C4_Witness ==
    /\ MatchedNothing
    /\ Tokens # <<>>
    /\ \/ RuneAt(last.pre.Pos) = [r |-> RuneError, w |-> 1]
       \/ last.pre.Pos = Len(Text)

\* C5: Accept(valid) returns whether the rune at the old Pos is in valid;
\* when it is, Pos has advanced by the width of that rune, and when it is
\* not, Pos is unchanged
C5_Accept ==
    last.op = "Accept" =>
        LET d == RuneAt(last.pre.Pos)
            member == d.r \in Members(last.str)
        IN  /\ status = "ok"
            /\ last.ret = member
            /\ Pos = IF member THEN last.pre.Pos + d.w ELSE last.pre.Pos

\* Accept consumed a two-byte rune
C5_Witness ==
    /\ last.op = "Accept"
    /\ last.ret
    /\ Pos = last.pre.Pos + 2

\* the byte length of the longest prefix of Text[p:] made of runes in set
RECURSIVE PrefixLen(_, _)
PrefixLen(p, set) ==
    IF p < Len(Text) /\ RuneAt(p).r \in set
    THEN RuneAt(p).w + PrefixLen(p + RuneAt(p).w, set)
    ELSE 0

DelimOffsets(p, set) == { q \in RuneOffsets(p) : RuneAt(q).r \in set }

\* the offsets just after the runes of Text[p:] that decode to the sentinel
\* and are no delimiter
SentinelEnds(p, set) ==
    { q + RuneAt(q).w : q \in { o \in RuneOffsets(p) :
                                  RuneAt(o).r = RuneError /\ RuneError \notin set } }

\* C7 as stated: AcceptUntil(delims) called at p on a text whose remainder
\* holds a rune of delims returns with Pos at the offset of the first one
C7_AsStated ==
    (last.op = "AcceptUntil" /\ DelimOffsets(last.pre.Pos, LastSet) # {}) =>
        /\ status = "ok"
        /\ Pos = Min(DelimOffsets(last.pre.Pos, LastSet))

\* C7, amended: AcceptUntil(delims) called at p on a text whose remainder
\* holds a rune of delims returns with Pos at the offset of the first one
\* (the delimiter is not consumed), unless a rune that decodes to the
\* sentinel and is no delimiter comes before it: then it returns with Pos
\* just after the first such rune
C7_AcceptUntilDelim ==
    (last.op = "AcceptUntil" /\ DelimOffsets(last.pre.Pos, LastSet) # {}) =>
        LET p == last.pre.Pos
        IN  /\ status = "ok"
            /\ Pos = Min(DelimOffsets(p, LastSet) \cup SentinelEnds(p, LastSet))

\* AcceptUntil consumed at least one rune and stopped at a delimiter that
\* no sentinel precedes
C7_Witness ==
    /\ last.op = "AcceptUntil"
    /\ DelimOffsets(last.pre.Pos, LastSet) # {}
    /\ SentinelEnds(last.pre.Pos, LastSet) = {}
    /\ Pos > last.pre.Pos
    /\ Pos < Len(Text)

\* C8 as stated: AcceptUntil(delims) on a remainder without a rune of delims
\* returns with Pos = len(Text)
C8_AsStated ==
    (last.op = "AcceptUntil" /\ DelimOffsets(last.pre.Pos, LastSet) = {}) =>
        /\ status = "ok"
        /\ Pos = Len(Text)

\* C8, amended: AcceptUntil(delims) on a remainder without a rune of delims
\* returns with Pos = len(Text) when no rune of the remainder decodes to
\* the sentinel, and with Pos just after the first such rune otherwise
C8_AcceptUntilNoDelim ==
    (last.op = "AcceptUntil" /\ DelimOffsets(last.pre.Pos, LastSet) = {}) =>
        LET p == last.pre.Pos
        IN  /\ status = "ok"
            /\ Pos = Min(SentinelEnds(p, LastSet) \cup {Len(Text)})

\* AcceptUntil ran over two or more runes to the end of a remainder that
\* holds neither a delimiter nor a sentinel
C8_Witness ==
    /\ last.op = "AcceptUntil"
    /\ DelimOffsets(last.pre.Pos, LastSet) = {}
    /\ SentinelEnds(last.pre.Pos, LastSet) = {}
    /\ Cardinality(RuneOffsets(last.pre.Pos)) >= 2
    /\ Pos = Len(Text)

\* the rune at offset q is escaped in a scan that started at p: an odd
\* number of backslashes stands just before it
Escaped(p, q) == ~Even(BackslashRun(p, q))

\* the offsets of the delimiters of Text[p:] that are not escaped
UnescapedDelims(p, set) == { q \in DelimOffsets(p, set) : ~Escaped(p, q) }

\* the offsets just after the runes of Text[p:] that decode to the sentinel
\* and are escaped or no delimiter
UnescapedSentinelEnds(p, set) ==
    { q + RuneAt(q).w : q \in { o \in RuneOffsets(p) :
                                  /\ RuneAt(o).r = RuneError
                                  /\ (RuneError \notin set \/ Escaped(p, o)) } }

MetDelims == { q \in DelimOffsets(last.pre.Pos, LastSet) : q <= Pos }

PositionsInOrder ==
    /\ 0 <= TokenStart
    /\ TokenStart <= Pos
    /\ Pos <= Len(Text)

\* C1 as stated: while every Backup the caller made came after exactly one
\* Next since the Backup before, 0 <= TokenStart <= Pos <= len(Text)
C1_AsStated == contract.exact => PositionsInOrder

\* C1, amended: while every Backup the caller made came after exactly one
\* Next since the Backup before, and after no Ignore or Emit made since
\* that Next, 0 <= TokenStart <= Pos <= len(Text)
C1_PositionsInOrder == (contract.exact /\ contract.clean) => PositionsInOrder

\* the caller kept to that, made a Backup, and a token boundary was set
\* inside the text
C1_Witness ==
    /\ contract.exact
    /\ contract.clean
    /\ contract.used
    /\ 0 < TokenStart
    /\ TokenStart < Pos

(***************************************************************************)
(* C3: Emit.                                                               *)
(***************************************************************************)
\* C3: Emit(t) returns, sets the text of t to Text[TokenStart:Pos], appends
\* t as the last element of Tokens (one element more), sets TokenStart to
\* Pos and leaves Pos as it was; an Emit made straight after an Ignore or
\* another Emit returns and gives t the empty text
C3_Emit ==
    last.op = "Emit" =>
        /\ status = "ok"
        /\ tokenText[last.tok] = Slice(last.pre.TokenStart, last.pre.Pos)
        /\ Tokens = Append(last.preTokens, last.tok)
        /\ TokenStart = Pos
        /\ Pos = last.pre.Pos
        /\ last.after \in {"Ignore", "Emit"} =>
              /\ status = "ok"
              /\ Len(Tokens) = Len(last.preTokens) + 1
              /\ tokenText[last.tok] = <<>>

\* a second Emit straight after a first one that took a text
C3_Witness ==
    /\ last.op = "Emit"
    /\ last.after = "Emit"
    /\ Len(Tokens) = 2
    /\ Tokens[1] # Tokens[2]
    /\ tokenText[Tokens[1]] # <<>>
    /\ tokenText[Tokens[2]] = <<>>

(***************************************************************************)
(* C2: Run.                                                                *)
(***************************************************************************)
\* C2: Run(initial) calls initial first and then each state function
\* returned, none of them nil; it goes on while the state function called
\* last returned one, and when one returns nil (or initial is nil, and then
\* nothing is called) it returns, with no further call, the Tokens of the
\* Lexer: the tokens emitted, in the order of their Emit calls
C2_Run ==
    LET called == run.invoked
        got == run.returned
    IN  /\ called # <<>> => called[1] = run.initial
        /\ \A i \in 1..Len(called) : called[i] # Nil
        /\ \A i \in 2..Len(called) : called[i] = got[i - 1]
        /\ \A i \in 1..(Len(got) - 1) : got[i] # Nil
        /\ run.phase = "body" =>
              /\ Len(called) = Len(got) + 1
              /\ \A i \in 1..Len(got) : got[i] # Nil
        /\ run.phase = "loop" => Len(called) = Len(got)
        /\ run.phase = "done" =>
              /\ Len(called) = Len(got)
              /\ IF called = <<>> THEN run.initial = Nil
                 ELSE got[Len(got)] = Nil
              /\ run.result = Tokens
              /\ run.result = run.emits

\* Run returned two tokens after two calls of state functions
C2_Witness ==
    /\ run.phase = "done"
    /\ Len(run.invoked) = 2
    /\ Len(run.result) = 2
    /\ run.result[1] # run.result[2]

(***************************************************************************)
(* C11: AcceptUntil and AcceptUntilUnescaped return.                       *)
(***************************************************************************)
\* the cursor of the call being followed, as the whole call leaves it
WholeCall ==
    IF scan.op = "AcceptUntil" THEN LexerAcceptUntil(scan.from, scan.delims)
    ELSE LexerAcceptUntilUnescaped(scan.from, scan.delims)

\* C11: every call of AcceptUntil and of AcceptUntilUnescaped returns,
\* whatever the text, the start position and the delimiters; a pass that
\* decodes the sentinel is the last one
C11_Terminates ==
    /\ (scan.pc = "loop") ~> (scan.pc = "returned")
    /\ [][(scan.pc = "loop" /\ Cur' = RuneError) => scan'.pc = "returned"]_vars
    /\ [](scan.pc = "returned" =>
              /\ status = "ok"
              /\ [Cursor EXCEPT !.nx = 0] = [WholeCall EXCEPT !.nx = 0])

\* a call of AcceptUntilUnescaped on a text that ends in a backslash
\* returned at the end of the text, and a call that met a malformed byte
\* returned
C11_Witness ==
    /\ scan.pc = "returned"
    /\ Len(Text) > 0
    /\ \/ /\ scan.op = "AcceptUntilUnescaped"
          /\ Text[Len(Text)] = Backslash
          /\ scan.from.Pos < Pos
          /\ Pos = Len(Text)
       \/ /\ scan.op = "AcceptUntil"
          /\ Pos > 0
          /\ RuneAt(Pos - 1) = [r |-> RuneError, w |-> 1]
          /\ Cur = RuneError

(***************************************************************************)
(* C12: Peek.                                                              *)
(***************************************************************************)
\* C12: Peek leaves Pos as it was and returns the rune a Next made straight
\* after it would return; a Peek made straight after a Peek returns the
\* same rune and leaves Pos as it was
C12_Peek ==
    /\ [](last.op = "Peek" =>
              /\ status = "ok"
              /\ Pos = last.pre.Pos
              /\ last.rune = LexerNext(Cursor).Cur)
    /\ [][(last.op = "Peek" /\ last'.op = "Peek") =>
              (last'.rune = last.rune /\ Pos' = Pos)]_vars

\* a Peek at a two-byte rune after a call that had decoded it there already
C12_Witness ==
    /\ last.op = "Peek"
    /\ last.rune = 233
    /\ Width = 2
    /\ Prev = 233
    /\ Pos = 0

(***************************************************************************)
(* C16: what Peek leaves as it was.                                        *)
(***************************************************************************)
\* C16 as stated: a Peek leaves Pos, Width, Cur, Prev, TokenStart and Tokens
\* as they were
C16_AsStated ==
    [][last'.op = "Peek" =>
          UNCHANGED <<Pos, Width, Cur, Prev, TokenStart, Tokens>>]_vars

\* C16, amended: a Peek leaves Pos, TokenStart, Tokens and the texts of the
\* tokens as they were; it sets Width and Cur to the width and the rune
\* decoded at Pos and Prev to the Cur before it, so a Peek made straight
\* after a Peek changes at most Prev, and one made after two changes
\* nothing
C16_PeekFrame ==
    [][last'.op = "Peek" =>
          /\ UNCHANGED <<Text, Pos, TokenStart, Tokens, tokenText, status>>
          /\ Width' = RuneAt(Pos).w
          /\ Cur' = RuneAt(Pos).r
          /\ Prev' = Cur
          /\ last.op = "Peek" => UNCHANGED <<Width, Cur>>]_vars

\* a Peek at the '"' after Next calls over U+00E9 and a backslash
C16_Witness ==
    /\ last.op = "Peek"
    /\ Pos = 3
    /\ Width = 1
    /\ Cur = 34
    /\ Prev = Backslash

(***************************************************************************)
(* C13: the tokens already emitted.                                        *)
(***************************************************************************)
\* C13 as stated: whatever is called next, every token in Tokens keeps its
\* index and its text
C13_AsStated ==
    [][\A i \in 1..Len(Tokens) :
          /\ i <= Len(Tokens')
          /\ Tokens'[i] = Tokens[i]
          /\ tokenText'[Tokens[i]] = tokenText[Tokens[i]]]_vars

\* C13, amended: whatever is called next, every token in Tokens keeps its
\* index, and it keeps its text unless the call is an Emit of that same
\* token object
C13_TokensKept ==
    [][\A i \in 1..Len(Tokens) :
          /\ i <= Len(Tokens')
          /\ Tokens'[i] = Tokens[i]
          /\ ~(last'.op = "Emit" /\ last'.tok = Tokens[i]) =>
                 tokenText'[Tokens[i]] = tokenText[Tokens[i]]]_vars

\* two token objects emitted, the first with a text, and a call made since
C13_Witness ==
    /\ Len(Tokens) = 2
    /\ Tokens[1] # Tokens[2]
    /\ tokenText[Tokens[1]] # <<>>
    /\ tokenText[Tokens[2]] # <<>>
    /\ last.op = "scan"

(***************************************************************************)
(* C14: the texts emitted and ignored, put together.                       *)
(***************************************************************************)
\* C14: after any sequence of accept-family, Peek, Ignore and Emit calls the
\* texts the Emit calls gave their tokens and the texts the Ignore calls
\* dropped, one after the other in the order of the calls, are
\* Text[0:TokenStart], and TokenStart <= Pos <= len(Text)
C14_RoundTrip ==
    /\ status # "panic"
    /\ TokenStart <= Pos
    /\ Pos <= Len(Text)
    /\ segments = Slice(0, TokenStart)

\* a text was emitted, another was dropped by the Ignore just made, and
\* the cursor has moved on since
C14_Witness ==
    /\ Len(Tokens) = 1
    /\ tokenText[Tokens[1]] # <<>>
    /\ Len(segments) > Len(tokenText[Tokens[1]])
    /\ TokenStart < Pos
    /\ SubSeq(segments, 1, Len(tokenText[Tokens[1]])) = tokenText[Tokens[1]]

(***************************************************************************)
(* C15: AcceptRun and AcceptRunFunc return.                                *)
(***************************************************************************)
\* C15: every call of AcceptRun and of AcceptRunFunc returns, whatever the
\* text, the start position and the set or predicate
C15_AsStated ==
    last.op \in {"AcceptRun", "AcceptRunFunc"} => status = "ok"

EncodeRune(r) ==
    IF r < 128 THEN <<r>>
    ELSE IF r < 2048 THEN <<192 + (r \div 64), 128 + (r % 64)>>
    ELSE <<224 + (r \div 4096), 128 + ((r \div 64) % 64), 128 + (r % 64)>>

\* the runes whose encodings the bytes of the texts can spell: '"', a
\* backslash, U+00E9 and U+FFFD
TextRunes == {34, Backslash, 233, RuneError}

\* no encoding of a rune starts at offset p of the text
MalformedAt(p) ==
    /\ p < Len(Text)
    /\ \A r \in TextRunes :
           LET e == EncodeRune(r)
           IN  ~(p + Len(e) <= Len(Text) /\ SubSeq(Text, p + 1, p + Len(e)) = e)

\* C18: Next called with Pos = len(Text) returns the sentinel, sets Width
\* to 0 and leaves Pos as it was, so that a Backup made straight after it
\* changes nothing; Pos never exceeds len(Text); Next called at a malformed
\* byte returns the sentinel and advances Pos by 1
C18_NextAtEnd ==
    /\ Pos <= Len(Text)
    /\ last.op = "Next" =>
           /\ status = "ok"
           /\ last.pre.Pos = Len(Text) =>
                  /\ last.rune = RuneError
                  /\ Width = 0
                  /\ Pos = last.pre.Pos
                  /\ LexerBackup(Cursor) = Cursor
           /\ MalformedAt(last.pre.Pos) =>
                  /\ last.rune = RuneError
                  /\ Width = 1
                  /\ Pos = last.pre.Pos + 1

\* Next at the end of a text whose last byte is malformed, after the Next
\* that passed that byte
C18_Witness ==
    /\ last.op = "Next"
    /\ last.pre.Pos = Len(Text)
    /\ Len(Text) > 0
    /\ MalformedAt(Len(Text) - 1)
    /\ Prev = RuneError
    /\ Cur = RuneError

(***************************************************************************)
(* C19: the positions when Next and Backup are left to the other methods.  *)
(***************************************************************************)
\* C19: under accept-family, Peek, Ignore and Emit calls alone, no call
\* moves Pos or TokenStart back, Pos is always an offset at which a rune of
\* the text starts or len(Text), and Emit never slices out of range
C19_Monotone ==
    /\ [](/\ Pos \in Boundaries(0)
          /\ SliceOK(TokenStart, Pos)
          /\ status # "panic")
    /\ [][Pos' >= Pos /\ TokenStart' >= TokenStart]_vars

\* an Emit made inside the text, just after a two-byte rune
C19_Witness ==
    /\ last.op = "Emit"
    /\ RuneAt(0).w = 2
    /\ Pos = 2
    /\ TokenStart = 2
    /\ Pos < Len(Text)
    /\ tokenText[last.tok] = <<195, 169>>

====
